---------------------------- MODULE Spec2Model ----------------------------
(***************************************************************************)
(* A model of the MCMC diagnostics of pyprob/stats.py:                     *)
(*   compute_acorr, ess_1d, mono_seq_ess, effective_sample_size,           *)
(*   auto_correlation_time and gelman_rubin_diagnostic.                    *)
(*                                                                         *)
(* Real numbers are modelled exactly, as normalised fractions <<p, q>>     *)
(* with q > 0.  The samples are small integers.  Each function has a call  *)
(* frame (a record of its arguments and locals, named as in the source);   *)
(* each specification draws the arguments of one function in its initial   *)
(* states and then runs that function step by step.                        *)
(***************************************************************************)
EXTENDS Integers, Sequences, FiniteSets

VARIABLES acorr,   \* frame of a direct call of compute_acorr
          ess1d,   \* frame of ess_1d
          mono,    \* frame of mono_seq_ess
          batch,   \* frame of effective_sample_size
          gr       \* frame of gelman_rubin_diagnostic

vars == <<acorr, ess1d, mono, batch, gr>>

Idle == [pc |-> "idle"]

---------------------------------------------------------------------------
(* Bounds of the model.                                                    *)

MaxVal == 1        \* the samples of a scalar series are drawn from 0..MaxVal
MaxLen == 8        \* longest scalar series given to ess_1d / compute_acorr
MaxOver == 2       \* compute_acorr is asked for lags up to len(x) + MaxOver
MaxRows == 4       \* most draws (rows) of a matrix given to mono_seq_ess
MaxCols == 3       \* most dimensions (columns) of such a matrix
MaxT == 5          \* most draws per chain given to effective_sample_size
MaxChains == 3     \* most chains given to gelman_rubin_diagnostic
MaxDraws == 3      \* most draws per chain given to gelman_rubin_diagnostic

Vals == 0 .. MaxVal

\* The entries of matrices and tensors: their number grows exponentially
\* with the number of cells, so the entries stay binary.
Bit == {0, 1}

SeqsOfLen(S, len) == [1 .. len -> S]

---------------------------------------------------------------------------
(* Exact arithmetic on fractions <<p, q>>, q > 0, in lowest terms.         *)

Abs(i) == IF i < 0 THEN -i ELSE i

RECURSIVE Gcd(_, _)
Gcd(a, b) == IF b = 0 THEN a ELSE Gcd(b, a % b)

Norm(p, q) ==
    LET s == IF q < 0 THEN -1 ELSE 1
        g == Gcd(Abs(p), Abs(q))
    IN  <<(s * p) \div g, (s * q) \div g>>

Rat(i) == <<i, 1>>
Zero == Rat(0)
One == Rat(1)

RAdd(a, b) == Norm(a[1] * b[2] + b[1] * a[2], a[2] * b[2])
RSub(a, b) == Norm(a[1] * b[2] - b[1] * a[2], a[2] * b[2])
RMul(a, b) == Norm(a[1] * b[1], a[2] * b[2])
\* a / b, for b # 0
RDiv(a, b) == Norm(a[1] * b[2], a[2] * b[1])
RLt(a, b) == a[1] * b[2] < b[1] * a[2]
RLe(a, b) == a[1] * b[2] <= b[1] * a[2]
RMin(a, b) == IF RLt(b, a) THEN b ELSE a

RECURSIVE RSum(_)
RSum(s) == IF s = <<>> THEN Zero ELSE RAdd(s[1], RSum(Tail(s)))

\* np.mean of a non-empty sequence of fractions
RMean(s) == RDiv(RSum(s), Rat(Len(s)))

\* the sum of a sequence of integers
RECURSIVE SumInt(_)
SumInt(s) == IF s = <<>> THEN 0 ELSE s[1] + SumInt(Tail(s))

\* np.mean of a non-empty sequence of integers
IMean(s) == Norm(SumInt(s), Len(s))

\* np.var of a non-empty sequence of integers, the mean of the squared
\* deviations from the mean: (len * sum(s^2) - sum(s)^2) / len^2
IVar(s) ==
    LET len == Len(s)
        sum == SumInt(s)
        squares == SumInt([i \in 1 .. len |-> s[i] * s[i]])
    IN  Norm(len * squares - sum * sum, len * len)

\* The supplied means: the multiples of one half in the samples' range.
MuVals == {Norm(h, 2) : h \in 0 .. 2 * MaxVal}

\* The supplied variances.  The variance only scales every autocorrelation
\* by the same positive factor.
VarVals == {Rat(1), Rat(2)}

\* An optional argument: <<>> is None, <<v>> is the supplied value v.
None == <<>>
Some(v) == <<v>>

---------------------------------------------------------------------------
(* numpy slicing and broadcasting of one-dimensional arrays.               *)

\* x[:e] of a Python sequence: a negative end counts from the back
SliceTo(x, e) ==
    LET len == IF e >= 0
               THEN (IF e < Len(x) THEN e ELSE Len(x))
               ELSE (IF Len(x) + e > 0 THEN Len(x) + e ELSE 0)
    IN  SubSeq(x, 1, len)

\* x[k:] for k >= 0
SliceFrom(x, k) == SubSeq(x, k + 1, Len(x))

\* whether numpy can broadcast shapes (la,) and (lb,) together
Broadcastable(la, lb) == la = lb \/ la = 1 \/ lb = 1

\* the length of the broadcast of shapes (la,) and (lb,)
BroadcastLen(la, lb) == IF la = 1 THEN lb ELSE la

---------------------------------------------------------------------------
(* compute_acorr(x, k, mu, var): the lag-k autocorrelation estimate.       *)
(* x is a sequence of integers, mu and var are fractions, var # 0.         *)
(* The outcome is a record: kind "val" with the value v, kind "nan" (the   *)
(* mean of an empty array), or kind "ValueError" (numpy cannot broadcast   *)
(* the two slices together).                                               *)

Outcome(kind, v) == [kind |-> kind, v |-> v]

\* np.mean((lo - mu) * (hi - mu)) for integer arrays lo, hi broadcast to the
\* length len > 0 and mu = p/q: every product is a fraction over q*q
MeanCenteredProduct(lo, hi, len, mu) ==
    LET p == mu[1]
        q == mu[2]
        la == Len(lo)
        lb == Len(hi)
        num == [i \in 1 .. len |->
                   (lo[IF la = 1 THEN 1 ELSE i] * q - p)
                   * (hi[IF lb = 1 THEN 1 ELSE i] * q - p)]
    IN  Norm(SumInt(num), q * q * len)

compute_acorr(x, k, mu, var) ==
    LET n == Len(x)
        lo == SliceTo(x, n - k)
        hi == SliceFrom(x, k)
        la == Len(lo)
        lb == Len(hi)
        len == BroadcastLen(la, lb)
    IN  IF ~Broadcastable(la, lb) THEN Outcome("ValueError", Zero)
        ELSE IF len = 0 THEN Outcome("nan", Zero)
        ELSE Outcome("val",
                RDiv(RMul(RDiv(MeanCenteredProduct(lo, hi, len, mu), var),
                          Rat(n - k)), Rat(n)))

---------------------------------------------------------------------------
(* ess_1d(x, mu, var), as operators on its frame.                          *)
(* The series has at least two draws and var # 0, so that every call of   *)
(* compute_acorr the function makes yields a value.                        *)
(* lags, iters, pairs and added are instrumentation: the lags passed to    *)
(* compute_acorr, in order; the number of times the loop body has run; the *)
(* pair sum seen by each run; the amount each run added to auto_cor_sum.   *)

\* a variant that forgets the minimum and takes the current pair sum
NextRunningMin_NoMin(running_min, pair) == pair

\* the running minimum after comparing it with the current pair sum
NextRunningMin(running_min, pair) == RMin(running_min, pair)

\* the frame on entry: arguments bound, nothing computed
EssEntry(x, mu, var) ==
    [pc |-> "start", x |-> x, mu |-> mu, var |-> var, n |-> Len(x),
     lag |-> 0, auto_cor_sum |-> Zero,
     even_auto_cor |-> Zero, odd_auto_cor |-> Zero, running_min |-> Zero,
     auto_cor |-> <<>>, ess |-> Outcome("none", Zero),
     lags |-> <<>>, iters |-> 0, pairs |-> <<>>, added |-> <<>>]

\* lines 66-78: the lag-0 and lag-1 terms
EssBegin(f) ==
    LET even == compute_acorr(f.x, 0, f.mu, f.var).v
        odd == compute_acorr(f.x, 1, f.mu, f.var).v
    IN  [f EXCEPT !.pc = "loop", !.lag = 1,
                  !.auto_cor_sum = RSub(Zero, even),
                  !.even_auto_cor = even, !.odd_auto_cor = odd,
                  !.running_min = RAdd(even, odd),
                  !.auto_cor = <<even, odd>>,
                  !.lags = <<0, 1>>]

PairSum(f) == RAdd(f.even_auto_cor, f.odd_auto_cor)

\* a variant of the loop condition that lets the lag run one step further
EssCond_OffByOne(f) == RLt(Zero, PairSum(f)) /\ f.lag + 1 < f.n

\* line 80: the loop condition
EssCond(f) == RLt(Zero, PairSum(f)) /\ f.lag + 2 < f.n

\* lines 81-90: one run of the loop body
EssBody(f) ==
    LET rmin == NextRunningMin(f.running_min, PairSum(f))
        even == compute_acorr(f.x, f.lag + 1, f.mu, f.var).v
        odd == compute_acorr(f.x, f.lag + 2, f.mu, f.var).v
    IN  [f EXCEPT !.running_min = rmin,
                  !.auto_cor_sum = RAdd(f.auto_cor_sum, RMul(Rat(2), rmin)),
                  !.lag = f.lag + 2,
                  !.even_auto_cor = even, !.odd_auto_cor = odd,
                  !.auto_cor = f.auto_cor \o <<even, odd>>,
                  !.lags = f.lags \o <<f.lag + 1, f.lag + 2>>,
                  !.iters = f.iters + 1,
                  !.pairs = Append(f.pairs, PairSum(f)),
                  !.added = Append(f.added, RMul(Rat(2), rmin))]

\* a variant without the override for a negative sum
EssValue_NoOverride(n, auto_cor_sum) ==
    IF auto_cor_sum = Zero THEN Outcome("inf", Zero)
    ELSE Outcome("val", RDiv(Rat(n), auto_cor_sum))

\* lines 92-94: n / auto_cor_sum in numpy floating point, a zero sum being
\* +0.0 (the sum starts as 0 - gamma_0 and is only ever added to), then the
\* override for a negative sum
EssValue(n, auto_cor_sum) ==
    IF RLt(auto_cor_sum, Zero) THEN Outcome("inf", Zero)
    ELSE IF auto_cor_sum = Zero THEN Outcome("inf", Zero)
    ELSE Outcome("val", RDiv(Rat(n), auto_cor_sum))

\* lines 92-95
EssExit(f) == [f EXCEPT !.pc = "done", !.ess = EssValue(f.n, f.auto_cor_sum)]

RECURSIVE EssLoop(_)
EssLoop(f) == IF EssCond(f) THEN EssLoop(EssBody(f)) ELSE f

\* the whole call, as mono_seq_ess makes it
ess_1d(x, mu, var) == EssExit(EssLoop(EssBegin(EssEntry(x, mu, var))))

---------------------------------------------------------------------------
(* Specification SpecEss: one call of ess_1d on a series of length 2 to    *)
(* MaxLen with a supplied mean and a supplied non-zero variance.           *)

InitEss ==
    /\ \E len \in 2 .. MaxLen : \E x \in SeqsOfLen(Vals, len) :
       \E mu \in MuVals : \E var \in VarVals :
          ess1d = EssEntry(x, mu, var)
    /\ acorr = Idle /\ mono = Idle /\ batch = Idle /\ gr = Idle

Ess_Begin ==
    /\ ess1d.pc = "start"
    /\ ess1d' = EssBegin(ess1d)
    /\ UNCHANGED <<acorr, mono, batch, gr>>

Ess_Iterate ==
    /\ ess1d.pc = "loop"
    /\ EssCond(ess1d)
    /\ ess1d' = EssBody(ess1d)
    /\ UNCHANGED <<acorr, mono, batch, gr>>

Ess_Return ==
    /\ ess1d.pc = "loop"
    /\ ~EssCond(ess1d)
    /\ ess1d' = EssExit(ess1d)
    /\ UNCHANGED <<acorr, mono, batch, gr>>

NextEss == Ess_Begin \/ Ess_Iterate \/ Ess_Return

SpecEss == InitEss /\ [][NextEss]_vars

---------------------------------------------------------------------------
(* Specification SpecAcorr: one direct call of compute_acorr, with a lag   *)
(* from 0 up to the length of the series plus MaxOver.                     *)

InitAcorr ==
    /\ \E len \in 1 .. MaxLen : \E x \in SeqsOfLen(Vals, len) :
       \E k \in 0 .. len + MaxOver : \E mu \in MuVals : \E var \in VarVals :
          acorr = [pc |-> "start", x |-> x, k |-> k, mu |-> mu,
                   var |-> var, ret |-> Outcome("none", Zero)]
    /\ ess1d = Idle /\ mono = Idle /\ batch = Idle /\ gr = Idle

\* the call returns a value (a number or nan)
Acorr_Return ==
    /\ acorr.pc = "start"
    /\ LET r == compute_acorr(acorr.x, acorr.k, acorr.mu, acorr.var)
       IN  /\ r.kind # "ValueError"
           /\ acorr' = [acorr EXCEPT !.pc = "returned", !.ret = r]
    /\ UNCHANGED <<ess1d, mono, batch, gr>>

\* the call raises numpy's broadcasting error
Acorr_Raise ==
    /\ acorr.pc = "start"
    /\ LET r == compute_acorr(acorr.x, acorr.k, acorr.mu, acorr.var)
       IN  /\ r.kind = "ValueError"
           /\ acorr' = [acorr EXCEPT !.pc = "raised", !.ret = r]
    /\ UNCHANGED <<ess1d, mono, batch, gr>>

NextAcorr == Acorr_Return \/ Acorr_Raise

SpecAcorr == InitAcorr /\ [][NextAcorr]_vars

---------------------------------------------------------------------------
(* mono_seq_ess(samples, key, mu=None, var=None).  samples[key] is a       *)
(* matrix of rows draws by cols dimensions, a sequence of rows.            *)

Matrices(rows, cols) == [1 .. rows -> [1 .. cols -> Bit]]

\* every entry of the matrix, row by row
Flatten(a, rows, cols) ==
    [i \in 1 .. rows * cols |-> a[((i - 1) \div cols) + 1][((i - 1) % cols) + 1]]

\* samples[key].mean() and samples[key].var(): over every entry
MatrixMean(a, rows, cols) == IMean(Flatten(a, rows, cols))
MatrixVar(a, rows, cols) == IVar(Flatten(a, rows, cols))

\* samples[key][:, j], j counted from 0
Column(a, j) == [i \in 1 .. Len(a) |-> a[i][j + 1]]

\* lines 46-49: the mean and the variance every column is given
DefaultMu(mu, a, rows, cols) ==
    IF mu = None THEN MatrixMean(a, rows, cols) ELSE mu[1]
DefaultVar(var, a, rows, cols) ==
    IF var = None THEN MatrixVar(a, rows, cols) ELSE var[1]

\* line 51: the number of columns the loop visits
ColumnCount(a) == Len(a) - 1

\* lines 56-57 for column j: the finished frame of ess_1d
ColumnEss(a, mu, var, j) == ess_1d(Column(a, j), mu, var)

\* line 63: what the function returns
MonoResult(f) == [ess |-> f.ess]

MonoEntry(a, rows, cols, mu, var) ==
    [pc |-> "start", samples |-> a, rows |-> rows, cols |-> cols,
     args |-> [mu |-> mu, var |-> var],
     mu |-> Zero, var |-> Zero, d |-> 0, ess |-> <<>>, auto_cor |-> <<>>,
     j |-> 0, error |-> "", ret |-> [none |-> TRUE]]

(* Specification SpecMono: one call of mono_seq_ess.  When no variance is  *)
(* supplied the matrix is not constant, so that the variance is not zero.  *)

InitMono ==
    /\ \E rows \in 1 .. MaxRows : \E cols \in 1 .. MaxCols :
       \E a \in Matrices(rows, cols) :
       \E mu \in {None} \cup {Some(v) : v \in MuVals} :
       \E var \in {None} \cup {Some(v) : v \in VarVals} :
          /\ var = None => MatrixVar(a, rows, cols) # Zero
          /\ mono = MonoEntry(a, rows, cols, mu, var)
    /\ acorr = Idle /\ ess1d = Idle /\ batch = Idle /\ gr = Idle

\* lines 46-54
Mono_Begin ==
    /\ mono.pc = "start"
    /\ mono' = [mono EXCEPT
                  !.pc = "loop",
                  !.mu = DefaultMu(mono.args.mu, mono.samples, mono.rows, mono.cols),
                  !.var = DefaultVar(mono.args.var, mono.samples, mono.rows, mono.cols),
                  !.d = ColumnCount(mono.samples),
                  !.ess = [i \in 1 .. ColumnCount(mono.samples) |-> Outcome("val", Zero)],
                  !.auto_cor = <<>>,
                  !.j = 0]
    /\ UNCHANGED <<acorr, ess1d, batch, gr>>

\* lines 55-59: one run of the loop body, column j
Mono_Column ==
    /\ mono.pc = "loop"
    /\ mono.j < mono.d
    /\ mono.j < mono.cols
    /\ LET r == ColumnEss(mono.samples, mono.mu, mono.var, mono.j)
       IN  mono' = [mono EXCEPT !.ess[mono.j + 1] = r.ess,
                                !.auto_cor = Append(mono.auto_cor, r.auto_cor),
                                !.j = mono.j + 1]
    /\ UNCHANGED <<acorr, ess1d, batch, gr>>

\* line 56 with j past the last column: numpy raises IndexError
Mono_IndexError ==
    /\ mono.pc = "loop"
    /\ mono.j < mono.d
    /\ mono.j >= mono.cols
    /\ mono' = [mono EXCEPT !.pc = "raised", !.error = "IndexError"]
    /\ UNCHANGED <<acorr, ess1d, batch, gr>>

\* line 63
Mono_Return ==
    /\ mono.pc = "loop"
    /\ mono.j >= mono.d
    /\ mono' = [mono EXCEPT !.pc = "done", !.ret = MonoResult(mono)]
    /\ UNCHANGED <<acorr, ess1d, batch, gr>>

NextMono == Mono_Begin \/ Mono_Column \/ Mono_IndexError \/ Mono_Return

SpecMono == InitMono /\ [][NextMono]_vars

---------------------------------------------------------------------------
(* effective_sample_size(x, mu=None, var=None) and auto_correlation_time.  *)
(* x[i][r][j] is draw r of dimension j in chain i: b chains of t draws of  *)
(* d dimensions.  mu, var and the accumulators ess_ are vectors of length  *)
(* d.  visited is instrumentation: the lags the loop has reached.          *)

Tensors(b, t, d) == [1 .. b -> [1 .. t -> [1 .. d -> Bit]]]

\* the b * t entries of dimension j, chain by chain
DimEntries(x, b, t, j) ==
    [i \in 1 .. b * t |-> x[((i - 1) \div t) + 1][((i - 1) % t) + 1][j]]

\* np.mean(x, axis=(0, 1)) and np.var(x, axis=(0, 1))
TensorMean(x, b, t, d) == [j \in 1 .. d |-> IMean(DimEntries(x, b, t, j))]
TensorVar(x, b, t, d) == [j \in 1 .. d |-> IVar(DimEntries(x, b, t, j))]

\* lines 140-142 for chain i and dimension j:
\* np.mean(y[:-s] * y[s:], axis=0) / var with y = x[i] - mu
ChainAutoCorr(x, i, j, s, t, mu, var) ==
    LET y == [r \in 1 .. t |-> x[i][r][j]]
    IN  RDiv(MeanCenteredProduct(SubSeq(y, 1, t - s), SubSeq(y, s + 1, t),
                                 t - s, mu[j]),
             var[j])

\* auto_correlation_time(x, s, mu, var): the average over the chains
auto_correlation_time(x, s, b, t, d, mu, var) ==
    [j \in 1 .. d |->
        RDiv(RSum([i \in 1 .. b |-> ChainAutoCorr(x, i, j, s, t, mu, var)]),
             Rat(b))]

\* the significance threshold 0.05 of lines 126 and 130
Threshold == <<1, 20>>

\* line 130: p[j] > 0.05
Exceeds(pj) == RLt(Threshold, pj)

\* line 126: np.sum(p > 0.05) == 0
Quiet(p) == \A j \in 1 .. Len(p) : ~Exceeds(p[j])

\* line 131: what a dimension over the threshold adds to its accumulator
Taper(pj, s, t) ==
    RMul(RMul(Rat(2), pj), RSub(One, RDiv(Rat(s), Rat(t))))

\* lines 129-131
Accumulate(acc, p, s, t) ==
    [j \in 1 .. Len(acc) |->
        IF Exceeds(p[j]) THEN RAdd(acc[j], Taper(p[j], s, t)) ELSE acc[j]]

BatchEntry(x, b, t, d, mu, var) ==
    [pc |-> "start", x |-> x, b |-> b, t |-> t, d |-> d,
     args |-> [mu |-> mu, var |-> var],
     mu |-> <<>>, var |-> <<>>, ess_ |-> <<>>, s |-> 0, p |-> <<>>,
     visited |-> <<>>, ret |-> <<>>]

\* The supplied mean and variance, the same in every dimension: those of a
\* fair coin.
SuppliedMoments == {<<Norm(1, 2), Norm(1, 4)>>}

\* The numbers <<b, d>> of chains and of dimensions: one series, two chains
\* of one dimension, one chain of two dimensions.
BatchShapes == {<<1, 1>>, <<2, 1>>, <<1, 2>>}

(* Specification SpecBatch: one call of effective_sample_size on b chains  *)
(* of d dimensions, of 1 to MaxT draws.  When no variance is supplied no   *)
(* dimension is constant, so that no variance is zero.                     *)

InitBatch ==
    /\ \E shape \in BatchShapes : \E t \in 1 .. MaxT :
       \E b \in {shape[1]} : \E d \in {shape[2]} : \E x \in Tensors(b, t, d) :
       \E m \in {None} \cup {Some(v) : v \in SuppliedMoments} :
          /\ m = None => \A j \in 1 .. d : TensorVar(x, b, t, d)[j] # Zero
          /\ batch = BatchEntry(x, b, t, d,
                 IF m = None THEN None ELSE Some([j \in 1 .. d |-> m[1][1]]),
                 IF m = None THEN None ELSE Some([j \in 1 .. d |-> m[1][2]]))
    /\ acorr = Idle /\ ess1d = Idle /\ mono = Idle /\ gr = Idle

\* lines 118-123
Batch_Begin ==
    /\ batch.pc = "start"
    /\ batch' = [batch EXCEPT
                   !.pc = "loop",
                   !.mu = IF batch.args.mu = None
                          THEN TensorMean(batch.x, batch.b, batch.t, batch.d)
                          ELSE batch.args.mu[1],
                   !.var = IF batch.args.var = None
                           THEN TensorVar(batch.x, batch.b, batch.t, batch.d)
                           ELSE batch.args.var[1],
                   !.ess_ = [j \in 1 .. batch.d |-> One],
                   !.s = 1]
    /\ UNCHANGED <<acorr, ess1d, mono, gr>>

\* lines 125-131 at a lag where some dimension is over the threshold
Batch_Accumulate ==
    /\ batch.pc = "loop"
    /\ batch.s < batch.t
    /\ LET p == auto_correlation_time(batch.x, batch.s, batch.b, batch.t,
                                      batch.d, batch.mu, batch.var)
       IN  /\ ~Quiet(p)
           /\ batch' = [batch EXCEPT
                          !.p = p,
                          !.ess_ = Accumulate(batch.ess_, p, batch.s, batch.t),
                          !.visited = Append(batch.visited, batch.s),
                          !.s = batch.s + 1]
    /\ UNCHANGED <<acorr, ess1d, mono, gr>>

\* a variant that goes on to the next lag instead of leaving the loop
Batch_Break_Continue ==
    /\ batch.pc = "loop"
    /\ batch.s < batch.t
    /\ LET p == auto_correlation_time(batch.x, batch.s, batch.b, batch.t,
                                      batch.d, batch.mu, batch.var)
       IN  /\ Quiet(p)
           /\ batch' = [batch EXCEPT
                          !.p = p,
                          !.visited = Append(batch.visited, batch.s),
                          !.s = batch.s + 1]
    /\ UNCHANGED <<acorr, ess1d, mono, gr>>

\* lines 125-127 at a lag where no dimension is over the threshold: break
Batch_Break ==
    /\ batch.pc = "loop"
    /\ batch.s < batch.t
    /\ LET p == auto_correlation_time(batch.x, batch.s, batch.b, batch.t,
                                      batch.d, batch.mu, batch.var)
       IN  /\ Quiet(p)
           /\ batch' = [batch EXCEPT
                          !.p = p,
                          !.visited = Append(batch.visited, batch.s),
                          !.pc = "after"]
    /\ UNCHANGED <<acorr, ess1d, mono, gr>>

\* line 124: the lags are exhausted
Batch_Exhaust ==
    /\ batch.pc = "loop"
    /\ batch.s >= batch.t
    /\ batch' = [batch EXCEPT !.pc = "after"]
    /\ UNCHANGED <<acorr, ess1d, mono, gr>>

\* line 134: t / ess_ (every accumulator is at least 1)
Batch_Return ==
    /\ batch.pc = "after"
    /\ batch' = [batch EXCEPT
                   !.pc = "done",
                   !.ret = [j \in 1 .. batch.d |->
                               RDiv(Rat(batch.t), batch.ess_[j])]]
    /\ UNCHANGED <<acorr, ess1d, mono, gr>>

NextBatch ==
    Batch_Begin \/ Batch_Accumulate \/ Batch_Break \/ Batch_Exhaust
    \/ Batch_Return

SpecBatch == InitBatch /\ [][NextBatch]_vars

---------------------------------------------------------------------------
(* gelman_rubin_diagnostic(x, mu=None).  x[i][r] is draw r of chain i: m   *)
(* chains of n draws.  The square root of line 186 has no exact fraction:  *)
(* the frame keeps r_hat_sq, the square v_hat / w of the value returned    *)
(* (r_hat is 1 exactly when r_hat_sq is 1).                                *)

Chains(m, n) == [1 .. m -> [1 .. n -> Bit]]

\* a variant of the test that lets a single chain through
TooFewChains_OffByOne(m) == m < 1

\* line 171: too few chains
TooFewChains(m) == m < 2

\* line 175: np.mean(x, axis=1)
ChainMeans(x) == [i \in 1 .. Len(x) |-> IMean(x[i])]

\* line 176: np.var(x, axis=1)
ChainVars(x) == [i \in 1 .. Len(x) |-> IVar(x[i])]

\* Python's truth value of the argument mu: None and 0 are both false
Truthy(mu) == mu # None /\ mu[1] # Zero

\* line 178: mu if mu else np.mean(theta, axis=0)
GrandMean(mu, theta) == IF Truthy(mu) THEN mu[1] ELSE RMean(theta)

\* line 181, for m >= 2
BetweenChain(n, m, theta, theta_m) ==
    RMul(RDiv(Rat(n), Rat(m - 1)),
         RSum([i \in 1 .. Len(theta) |->
                  RMul(RSub(theta[i], theta_m), RSub(theta[i], theta_m))]))

\* line 183
WithinChain(m, sigma) == RMul(RDiv(One, Rat(m)), RSum(sigma))

\* a variant that does not shrink the within-chain variance by (n - 1) / n
PooledVariance_NoShrink(n, m, w, b) ==
    RAdd(w, RMul(RDiv(Rat(m + 1), Rat(m * n)), b))

\* line 185
PooledVariance(n, m, w, b) ==
    RAdd(RMul(RDiv(Rat(n - 1), Rat(n)), w),
         RMul(RDiv(Rat(m + 1), Rat(m * n)), b))

\* v_hat / w of line 186 in numpy floating point: 0/0 is nan, v/0 is inf
VarianceRatio(v_hat, w) ==
    IF w # Zero THEN Outcome("val", RDiv(v_hat, w))
    ELSE IF v_hat = Zero THEN Outcome("nan", Zero)
    ELSE Outcome("inf", Zero)

GrEntry(x, m, n, mu) ==
    [pc |-> "start", x |-> x, m |-> m, n |-> n, mu |-> mu,
     theta |-> <<>>, sigma |-> <<>>, theta_m |-> Zero, b |-> Zero,
     w |-> Zero, v_hat |-> Zero, r_hat_sq |-> Outcome("none", Zero),
     error |-> ""]

\* lines 175-188
GrCompute(f) ==
    LET theta == ChainMeans(f.x)
        sigma == ChainVars(f.x)
        theta_m == GrandMean(f.mu, theta)
        b == BetweenChain(f.n, f.m, theta, theta_m)
        w == WithinChain(f.m, sigma)
        v_hat == PooledVariance(f.n, f.m, w, b)
    IN  [f EXCEPT !.pc = "done", !.theta = theta, !.sigma = sigma,
                  !.theta_m = theta_m, !.b = b, !.w = w, !.v_hat = v_hat,
                  !.r_hat_sq = VarianceRatio(v_hat, w)]

\* The reference means supplied: zero, and the mean and the largest value
\* of a binary chain.
ReferenceMeans == {Zero, Norm(1, 2), One}

(* Specification SpecGR: one call of gelman_rubin_diagnostic on 0 to       *)
(* MaxChains chains of 1 to MaxDraws draws, with or without a reference    *)
(* mean.                                                                   *)

InitGR ==
    /\ \E m \in 0 .. MaxChains : \E n \in 1 .. MaxDraws : \E x \in Chains(m, n) :
       \E mu \in {None} \cup {Some(v) : v \in ReferenceMeans} :
          gr = GrEntry(x, m, n, mu)
    /\ acorr = Idle /\ ess1d = Idle /\ mono = Idle /\ batch = Idle

\* lines 170-174: the usage error
GR_Raise ==
    /\ gr.pc = "start"
    /\ TooFewChains(gr.m)
    /\ gr' = [gr EXCEPT !.pc = "raised", !.error = "ValueError"]
    /\ UNCHANGED <<acorr, ess1d, mono, batch>>

\* lines 175-188; float(n) / float(m - 1) of line 181 raises
\* ZeroDivisionError for m = 1, and x of no chains has no mean
GR_Compute ==
    /\ gr.pc = "start"
    /\ ~TooFewChains(gr.m)
    /\ gr' = IF gr.m >= 2 THEN GrCompute(gr)
             ELSE [gr EXCEPT !.pc = "raised", !.error = "ZeroDivisionError"]
    /\ UNCHANGED <<acorr, ess1d, mono, batch>>

NextGR == GR_Raise \/ GR_Compute

SpecGR == InitGR /\ [][NextGR]_vars

---------------------------------------------------------------------------
(* Properties of gelman_rubin_diagnostic, under SpecGR.                    *)

\* a finished call on m >= 2 identical, non-constant chains, with no
\* reference mean
IdenticalChainsCase ==
    /\ gr.pc = "done"
    /\ gr.m >= 2
    /\ gr.mu = None
    /\ \A i \in 1 .. gr.m : gr.x[i] = gr.x[1]
    /\ \E r \in 1 .. gr.n : gr.x[1][r] # gr.x[1][1]

\* C1, as stated: on m identical non-constant chains with no reference mean
\* R-hat is exactly 1, the pooled variance estimate being the within-chain
\* variance.
C1_RhatIsOne ==
    IdenticalChainsCase =>
        /\ gr.r_hat_sq = Outcome("val", One)
        /\ gr.v_hat = gr.w

\* C1, amended: on m identical non-constant chains with no reference mean
\* B = 0 and W # 0, the pooled variance estimate is (n - 1) / n times the
\* within-chain variance, and R-hat is sqrt((n - 1) / n), below 1.
C1_RhatIsShrunk ==
    IdenticalChainsCase =>
        /\ gr.b = Zero
        /\ gr.w # Zero
        /\ RMul(Rat(gr.n), gr.v_hat) = RMul(Rat(gr.n - 1), gr.w)
        /\ gr.r_hat_sq.kind = "val"
        /\ gr.r_hat_sq.v = Norm(gr.n - 1, gr.n)
        /\ RLt(gr.r_hat_sq.v, One)

C1_Witness == IdenticalChainsCase /\ gr.m = 3 /\ gr.n = 3

\* C2: the grand mean used in the between-chain variance is the reference
\* mean whenever one is supplied, 0 included, and the mean of the chain
\* means only when none is supplied.
C2_GrandMeanIsReference ==
    gr.pc = "done" =>
        /\ gr.mu # None => gr.theta_m = gr.mu[1]
        /\ gr.mu = None => gr.theta_m = RMean(gr.theta)

\* C3: the call fails with ValueError, no statistic computed, exactly when
\* there are fewer than two chains, whatever n and the reference mean.
C3_UsageError ==
    gr.pc # "start" =>
        /\ gr.m < 2 <=> (gr.pc = "raised" /\ gr.error = "ValueError")
        /\ gr.m >= 2 <=> (gr.pc = "done" /\ gr.error = "")
        /\ gr.pc = "raised" =>
              /\ gr.theta = <<>> /\ gr.sigma = <<>>
              /\ gr.r_hat_sq.kind = "none"

C3_Witness ==
    gr.pc = "raised" /\ gr.m = 1 /\ gr.n = MaxDraws /\ gr.mu # None

---------------------------------------------------------------------------
(* Properties of mono_seq_ess, under SpecMono.                             *)

\* C4: for a matrix of shape (n, d) the call runs ess_1d once per column
\* and returns d ESS values together with the list of the d traces,
\* whatever n.
C4_OneResultPerColumn ==
    /\ mono.pc # "raised"
    /\ mono.pc = "done" =>
          /\ mono.j = mono.cols
          /\ Len(mono.ret.ess) = mono.cols
          /\ "auto_cor" \in DOMAIN mono.ret

\* the matrix a with the entry of row i, column c (from 1) flipped
Flip(a, i, c) == [a EXCEPT ![i][c] = 1 - a[i][c]]

\* C5: with no mean and no variance supplied, the ESS of column j is the
\* same for every matrix of the same shape that agrees on column j (here:
\* that differs in one entry of another column).
C5_NoCrossDimensionCoupling ==
    (mono.pc = "done" /\ mono.args.mu = None /\ mono.args.var = None) =>
        \A j \in 0 .. mono.d - 1 :
        \A i \in 1 .. mono.rows : \A c \in (1 .. mono.cols) \ {j + 1} :
            LET other == Flip(mono.samples, i, c)
                mu == DefaultMu(None, other, mono.rows, mono.cols)
                var == DefaultVar(None, other, mono.rows, mono.cols)
            IN  var # Zero =>
                    ColumnEss(other, mu, var, j).ess = mono.ess[j + 1]

---------------------------------------------------------------------------
(* Properties of ess_1d, under SpecEss.                                    *)

\* C6: the ESS returned is never negative: it is +infinity whenever the
\* accumulated sum is negative at the exit of the loop (also when the body
\* never ran), and n divided by the sum whenever the sum is positive.
C6_NeverNegative ==
    ess1d.pc = "done" =>
        /\ ess1d.ess.kind \in {"val", "inf"}
        /\ RLt(ess1d.auto_cor_sum, Zero) => ess1d.ess.kind = "inf"
        /\ RLt(Zero, ess1d.auto_cor_sum) =>
              /\ ess1d.ess.kind = "val"
              /\ RMul(ess1d.ess.v, ess1d.auto_cor_sum) = Rat(ess1d.n)
        /\ ess1d.ess.kind = "val" => RLt(Zero, ess1d.ess.v)
        /\ ess1d.iters = 0 => ess1d.auto_cor_sum = RSub(Zero, ess1d.auto_cor[1])

C6_Witness ==
    /\ ess1d.pc = "done"
    /\ ess1d.iters > 0
    /\ RLt(ess1d.auto_cor_sum, Zero)
    /\ ess1d.ess.kind = "inf"

\* the lag is 1 + 2 * (runs of the loop body), every lag passed to
\* compute_acorr is in 0 .. n - 1, and the body has run at most
\* floor((n - 2) / 2) times
LagsBounded ==
    ess1d.n >= 3 =>
        /\ ess1d.pc # "start" => ess1d.lag = 1 + 2 * ess1d.iters
        /\ \A i \in 1 .. Len(ess1d.lags) :
              /\ ess1d.lags[i] = i - 1
              /\ 0 <= ess1d.lags[i] /\ ess1d.lags[i] < ess1d.n
        /\ ess1d.iters <= (ess1d.n - 2) \div 2

\* the number of steps the call has left at most: the runs of the loop
\* body still allowed, and the steps that begin and return
StepsLeft ==
    CASE ess1d.pc = "start" -> (ess1d.n - 2) \div 2 + 2
      [] ess1d.pc = "loop" -> (ess1d.n - 2) \div 2 - ess1d.iters + 1
      [] ess1d.pc = "done" -> 0

\* C8: on a series of length n >= 3 the call terminates: the lag grows by 2
\* with every run of the loop body, every lag passed to compute_acorr is in
\* 0 .. n - 1, the body runs at most floor((n - 2) / 2) times, and every
\* step of the call lowers the number of steps it has left, which is never
\* negative.
C8_Terminates ==
    /\ []LagsBounded
    /\ [](ess1d.n >= 3 => StepsLeft >= 0)
    /\ [][ess1d.n >= 3 =>
             /\ StepsLeft' < StepsLeft
             /\ (ess1d.pc = "loop" /\ ess1d'.pc = "loop") =>
                    ess1d'.lag = ess1d.lag + 2]_vars

C8_Witness ==
    /\ ess1d.pc = "done"
    /\ ess1d.n = MaxLen
    /\ ess1d.iters = (ess1d.n - 2) \div 2
    /\ ess1d.lag = IF ess1d.n % 2 = 0 THEN ess1d.n - 1 ELSE ess1d.n - 2

\* C9: the running minimum never increases from one run of the loop body to
\* the next and is at most the pair sum of the run, so the amounts
\* 2 * running_min added to the sum never increase.
C9_RunningMinMonotone ==
    /\ Len(ess1d.added) = ess1d.iters
    /\ Len(ess1d.pairs) = ess1d.iters
    /\ \A i \in 1 .. Len(ess1d.added) :
          RLe(ess1d.added[i], RMul(Rat(2), ess1d.pairs[i]))
    /\ \A i \in 1 .. Len(ess1d.added) - 1 :
          RLe(ess1d.added[i + 1], ess1d.added[i])
    /\ ess1d.iters > 0 =>
          ess1d.added[ess1d.iters] = RMul(Rat(2), ess1d.running_min)

\* a run whose pair sum rose above the one before it, and was held down
C9_Witness ==
    \E i \in 1 .. Len(ess1d.added) - 1 :
        /\ RLt(ess1d.pairs[i], ess1d.pairs[i + 1])
        /\ ess1d.added[i + 1] = ess1d.added[i]

---------------------------------------------------------------------------
(* compute_acorr, under SpecAcorr.                                         *)

\* C7: a lag k >= n, k = n included, is reported as a usage error and no
\* value is returned.
C7_LagBeyondSeriesIsUsageError ==
    (acorr.pc # "start" /\ acorr.k >= Len(acorr.x)) => acorr.pc = "raised"

---------------------------------------------------------------------------
(* effective_sample_size, under SpecBatch.                                 *)

\* the autocorrelation of every dimension at lag s, once mu and var are set
LagAutoCorr(s) ==
    auto_correlation_time(batch.x, s, batch.b, batch.t, batch.d,
                          batch.mu, batch.var)

\* pj > 0.05
OverThreshold(pj) == 20 * pj[1] > pj[2]

\* the first lag at which no dimension is over 0.05, or t if there is none
FirstQuietLag ==
    LET quiet == {s \in 1 .. batch.t - 1 :
                    \A j \in 1 .. batch.d : ~OverThreshold(LagAutoCorr(s)[j])}
    IN  IF quiet = {} THEN batch.t
        ELSE CHOOSE s \in quiet : \A u \in quiet : s <= u

\* 1 plus what the lags 1 .. k add to the accumulator of dimension j
RECURSIVE AccumulatedUpTo(_, _)
AccumulatedUpTo(j, k) ==
    IF k = 0 THEN One
    ELSE LET pj == LagAutoCorr(k)[j]
         IN  IF OverThreshold(pj)
             THEN RAdd(AccumulatedUpTo(j, k - 1),
                       RDiv(RMul(Rat(2 * (batch.t - k)), pj), Rat(batch.t)))
             ELSE AccumulatedUpTo(j, k - 1)

\* C10: the lags 1, 2, ... are visited in increasing order up to the first
\* lag at which no dimension is over 0.05, and no further; at every lag
\* visited exactly the dimensions over 0.05 grow, by 2 * autocorr * (1 - s/t).
C10_StopsAtFirstQuietLag ==
    batch.pc # "start" =>
        /\ \A i \in 1 .. Len(batch.visited) : batch.visited[i] = i
        /\ Len(batch.visited) <= FirstQuietLag
        /\ batch.pc = "loop" =>
              /\ batch.s = Len(batch.visited) + 1
              /\ batch.s <= FirstQuietLag
        /\ batch.pc \in {"after", "done"} =>
              Len(batch.visited) =
                 IF FirstQuietLag < batch.t THEN FirstQuietLag ELSE batch.t - 1
        /\ \A j \in 1 .. batch.d :
              batch.ess_[j] = AccumulatedUpTo(j, Len(batch.visited))
        /\ batch.pc = "done" =>
              \A j \in 1 .. batch.d :
                 RMul(batch.ret[j], batch.ess_[j]) = Rat(batch.t)

\* a call that added to one accumulator and not to the other, stopped, and
\* left out a later lag that is over the threshold
C10_Witness ==
    /\ batch.pc = "done"
    /\ batch.d = 2
    /\ FirstQuietLag < batch.t - 1
    /\ \E s \in FirstQuietLag + 1 .. batch.t - 1 :
          \E j \in 1 .. batch.d : OverThreshold(LagAutoCorr(s)[j])
    /\ \E j, k \in 1 .. batch.d : batch.ess_[j] # One /\ batch.ess_[k] = One

=============================================================================
